---- MODULE Spec2Model ----
(***************************************************************************)
(* A model of the scripts of ds-notebooks:                                 *)
(*   Spark/server.py          the CSV flow streamer (bind, listen, accept, *)
(*                            get_flow_data, send_flows_to_spark, close)   *)
(*   twitter_app.py           send_tweets_to_spark over an HTTP line stream*)
(*   json_server/echo_server  the thread-per-connection echo server        *)
(*   json_server/json_test2   the single-threaded JSON accept loop         *)
(*   json_server/server.py    the single-threaded jsonsocket accept loop   *)
(* One run of the model is one run of one script: prog names it.           *)
(* The scripts are Python 3 (they use f-strings), so socket.send accepts   *)
(* bytes only and raises TypeError for anything else.                      *)
(***************************************************************************)
EXTENDS Naturals, Sequences, FiniteSets, TLC

VARIABLES
    prog,       \* which script runs
    pc,         \* position of the script's main thread
    http_resp,  \* the record source: what the for statement has yet to yield
    endless,    \* TRUE when the HTTP line stream never ends
    line,       \* the loop variable of the streaming loop
    payload,    \* the value handed to tcp_connection.send
    conn,       \* the accepted socket: "none", "open", "closed" (local close)
    peer,       \* the consumer: "absent", "open" (connected), "gone"
    queue,      \* connections established on the listening socket, not yet accepted
    exc,        \* the exception the main thread is unwinding with, or "none"
    pulled,     \* history: the records the loop has pulled, in order
    sends,      \* history: every call of send, with its outcome
    wire,       \* the bytes the socket accepted, in order (what the consumer reads)
    log,        \* history: the exceptions printed as "Error: ..."
    cstate,     \* per client: "idle", "connected", "closed"
    msg,        \* per client: the whole message it sends
    unsent,     \* per client: the bytes of msg it has not sent yet
    inbuf,      \* per client: bytes arrived at the server socket, not yet read
    resp,       \* per client: the bytes it has received from the server
    backlog,    \* the listening socket's queue of established connections
    sock,       \* per client: the server's socket for it: "none", "open", "closed"
    hpc,        \* per client: its session's position: "none", "recv", "loads",
                \*   "sendall", "done"
    data,       \* per client: what recv returned in its session
    herr,       \* per client: the exception that ended its session, or "none"
    tname,      \* per client: the number in the name of its handler thread
    srv,        \* echo server thread: "none", "select", "ready", "stopped"
    shutdown_request,   \* the flag server.shutdown() sets
    cur         \* single-threaded servers: the client socket in hand (0: none)

stream_vars == <<http_resp, endless, line, payload, conn, peer, queue, exc,
                 pulled, sends, wire, log>>
client_vars == <<cstate, msg, unsent, inbuf, resp>>
server_vars == <<backlog, sock, hpc, data, herr, tname, srv, shutdown_request, cur>>
vars == <<prog, pc, stream_vars, client_vars, server_vars>>

(***************************************************************************)
(* Bounds and input alphabets                                              *)
(***************************************************************************)
MaxRecords == 2
MaxClients == 2

NL == "NL"          \* the raw newline character
NoLine == <<"-">>   \* the loop variable before the first iteration

\* The field contents a record may carry: empty, plain, a raw newline,
\* and a newline after a letter.
Texts == { <<>>, <<"a">>, <<NL>>, <<"a", NL>> }

SeqsUpTo(S, n) == UNION { [1..k -> S] : k \in 0..n }

(***************************************************************************)
(* Serialisation                                                           *)
(***************************************************************************)
\* json.dumps escapes a control character inside a string: a raw newline
\* becomes the two characters backslash, n.
RECURSIVE Escape(_)
Escape(t) ==
    IF t = <<>> THEN <<>>
    ELSE (IF Head(t) = NL THEN <<"\\", "n">> ELSE <<Head(t)>>) \o Escape(Tail(t))

\* json.dumps(line) of one row of the data frame: an object around the
\* escaped content.  Its output holds no raw newline.
dumps(row) == <<"{">> \o Escape(row) \o <<"}">>

\* The inverse of Escape; <<"!">> marks text json.loads rejects.
Invalid == <<"!">>
RECURSIVE Unescape(_)
Unescape(b) ==
    IF b = <<>> THEN <<>>
    ELSE IF Head(b) = "\\"
         THEN IF Len(b) >= 2 /\ b[2] = "n"
              THEN LET r == Unescape(Tail(Tail(b)))
                   IN  IF r = Invalid THEN Invalid ELSE <<NL>> \o r
              ELSE Invalid
         ELSE IF Head(b) = "a"
              THEN LET r == Unescape(Tail(b))
                   IN  IF r = Invalid THEN Invalid ELSE <<"a">> \o r
              ELSE Invalid

\* One line of the upstream feed that carries a tweet: an object with the
\* key text ("t") and the escaped tweet text.
TweetLine(t) == <<"{", "t">> \o Escape(t) \o <<"}">>
KeepAlive == <<>>              \* the blank keep-alive line of the feed
NoTextLine == <<"{", "}">>     \* an object without the key text

Digits == {"1", "2"}

\* json.loads(text): the parsed value, or the exception it raises.  The
\* texts it accepts here: a number (a non-empty run of digits), the empty
\* object, and an object with the key text.
loads(l) ==
    LET bad == [exc |-> "JSONDecodeError", kind |-> "none", keys |-> {}, text |-> <<>>]
    IN
    IF l # <<>> /\ \A k \in 1..Len(l) : l[k] \in Digits
    THEN [exc |-> "none", kind |-> "number", keys |-> {}, text |-> l]
    ELSE IF Len(l) >= 2 /\ l[1] = "{" /\ l[Len(l)] = "}"
    THEN LET inner == SubSeq(l, 2, Len(l) - 1)
         IN  IF inner = <<>>
             THEN [exc |-> "none", kind |-> "object", keys |-> {}, text |-> <<>>]
             ELSE IF Head(inner) = "t" /\ Unescape(Tail(inner)) # Invalid
                  THEN [exc |-> "none", kind |-> "object", keys |-> {"text"},
                        text |-> Unescape(Tail(inner))]
                  ELSE bad
    ELSE bad

Rows == Texts
Clients == 1..MaxClients
\* What a client may send: a number, an object, and text that is no JSON.
Msgs == { <<"1", "2">>, <<"{", "}">>, <<"x">> }
Lines == { TweetLine(t) : t \in Texts } \cup { KeepAlive, NoTextLine }

\* A history is kept for a finite source only: an endless stream would
\* make it grow without bound.
Keep(h, x) == IF endless THEN h ELSE Append(h, x)
KeepCat(h, s) == IF endless THEN h ELSE h \o s

IsStreamer == prog \in {"spark", "twitter"}

(***************************************************************************)
(* Spark/server.py: the module's main code                                 *)
(***************************************************************************)
\* s.bind((TCP_IP, TCP_PORT)), serverSocket.bind((host, port)) and the bind
\* in Server(host, port): fails when the address is in use; the exception
\* ends the script (in Spark/server.py, before the try statement).
Bind ==
    /\ prog \in {"spark", "json_test2", "server"} /\ pc = "bind"
    /\ \/ pc' = "listen" /\ exc' = exc
       \/ pc' = "raised" /\ exc' = "OSError"
    /\ UNCHANGED <<prog, http_resp, endless, line, payload, conn, peer, queue,
                   pulled, sends, wire, log>>
    /\ UNCHANGED <<client_vars, server_vars>>

\* s.listen(1), serverSocket.listen(10), the listen in Server(host, port)
Listen ==
    /\ prog \in {"spark", "json_test2", "server"} /\ pc = "listen"
    /\ pc' = "accept"
    /\ UNCHANGED <<prog, stream_vars>>
    /\ UNCHANGED <<client_vars, server_vars>>

\* conn, addr = s.accept(): blocks until a connection is established.
Accept ==
    /\ prog = "spark" /\ pc = "accept"
    /\ queue > 0
    /\ queue' = queue - 1
    /\ conn' = "open"
    /\ pc' = "get_flow_data"
    /\ UNCHANGED <<prog, http_resp, endless, line, payload, peer, exc,
                   pulled, sends, wire, log>>
    /\ UNCHANGED <<client_vars, server_vars>>

\* A faulty variant of get_flow_data: its exception ends the script at once
\* (the call outside the try statement).
get_flow_data_outside_try ==
    /\ prog = "spark" /\ pc = "get_flow_data"
    /\ \/ pc' = "for" /\ exc' = exc
       \/ pc' = "raised" /\ exc' = "FileNotFoundError"
    /\ UNCHANGED <<prog, http_resp, endless, line, payload, conn, peer, queue,
                   pulled, sends, wire, log>>
    /\ UNCHANGED <<client_vars, server_vars>>

\* resp = get_flow_data(): pd.read_csv raises when the file is missing;
\* otherwise to_json gives the rows and json.loads(http_resp) the list obj.
get_flow_data ==
    /\ prog = "spark" /\ pc = "get_flow_data"
    /\ \/ pc' = "for" /\ exc' = exc
       \/ pc' = "finally" /\ exc' = "FileNotFoundError"
    /\ UNCHANGED <<prog, http_resp, endless, line, payload, conn, peer, queue,
                   pulled, sends, wire, log>>
    /\ UNCHANGED <<client_vars, server_vars>>

\* A faulty variant of Finally: after the close the script goes back to
\* accept (the loop of a server for many consumers).
Finally_reaccept ==
    /\ prog = "spark" /\ pc = "finally"
    /\ conn' = "closed"
    /\ pc' = IF exc = "none" THEN "accept" ELSE "raised"
    /\ UNCHANGED <<prog, http_resp, endless, line, payload, peer, queue, exc,
                   pulled, sends, wire, log>>
    /\ UNCHANGED <<client_vars, server_vars>>

\* finally: conn.close(), then the script ends or the exception goes on.
Finally ==
    /\ prog = "spark" /\ pc = "finally"
    /\ conn' = "closed"
    /\ pc' = IF exc = "none" THEN "done" ELSE "raised"
    /\ UNCHANGED <<prog, http_resp, endless, line, payload, peer, queue, exc,
                   pulled, sends, wire, log>>
    /\ UNCHANGED <<client_vars, server_vars>>

(***************************************************************************)
(* send_flows_to_spark / send_tweets_to_spark: the streaming loop          *)
(***************************************************************************)
\* for line in obj / for line in http_resp.iter_lines(): the next record,
\* or the end of the loop when the source is exhausted.
Pull ==
    /\ IsStreamer /\ pc = "for"
    /\ IF http_resp = <<>>
       THEN /\ pc' = IF prog = "spark" THEN "finally" ELSE "return"
            /\ UNCHANGED <<http_resp, line, pulled>>
       ELSE /\ line' = Head(http_resp)
            /\ http_resp' = IF endless THEN Append(Tail(http_resp), Head(http_resp))
                                       ELSE Tail(http_resp)
            /\ pulled' = Keep(pulled, Head(http_resp))
            /\ pc' = "try"
    /\ UNCHANGED <<prog, endless, payload, conn, peer, queue, exc, sends, wire, log>>
    /\ UNCHANGED <<client_vars, server_vars>>

\* The value the loop body hands to send.
\* Spark/server.py: payload = json.dumps(line); payload.encode()   (bytes)
\* twitter_app.py:  json.loads(line)['text'] + '\n'                (str)
PayloadOf(p, l) ==
    IF p = "spark"
    THEN [exc |-> "none", type |-> "bytes", data |-> dumps(l)]
    ELSE LET full_tweet == loads(l)
         IN  IF full_tweet.exc # "none"
             THEN [exc |-> full_tweet.exc, type |-> "str", data |-> <<>>]
             ELSE IF full_tweet.kind # "object"
                  THEN [exc |-> "TypeError", type |-> "str", data |-> <<>>]
             ELSE IF "text" \notin full_tweet.keys
                  THEN [exc |-> "KeyError", type |-> "str", data |-> <<>>]
                  ELSE [exc |-> "none", type |-> "str",
                        data |-> full_tweet.text \o <<NL>>]

\* try: the statements before send.  An exception is printed by the
\* except clause and the loop goes on with the next record.
Encode ==
    /\ IsStreamer /\ pc = "try"
    /\ LET p == PayloadOf(prog, line)
       IN  IF p.exc # "none"
           THEN /\ log' = Keep(log, p.exc)
                /\ pc' = "for"
                /\ UNCHANGED payload
           ELSE /\ payload' = [type |-> p.type, data |-> p.data]
                /\ pc' = "send"
                /\ UNCHANGED log
    /\ UNCHANGED <<prog, http_resp, endless, line, conn, peer, queue, exc,
                   pulled, sends, wire>>
    /\ UNCHANGED <<client_vars, server_vars>>

\* What socket.send(x) does: TypeError unless x is bytes; BrokenPipeError
\* when the consumer has gone; otherwise the socket accepts the first n
\* bytes, 1 <= n <= len(x), and returns n.
SendOutcomes(x, connected) ==
    IF x.type # "bytes" THEN {[exc |-> "TypeError", n |-> 0]}
    ELSE IF ~connected THEN {[exc |-> "BrokenPipeError", n |-> 0]}
    ELSE IF x.data = <<>> THEN {[exc |-> "none", n |-> 0]}
    ELSE {[exc |-> "none", n |-> k] : k \in 1..Len(x.data)}

\* A faulty variant of Send: after a partial write the whole frame is sent
\* again.
Send_resend ==
    /\ IsStreamer /\ pc = "send"
    /\ \E r \in SendOutcomes(payload, peer = "open") :
          /\ sends' = Keep(sends, [i |-> Len(pulled), data |-> payload.data, res |-> r])
          /\ IF r.exc = "none"
             THEN /\ wire' = KeepCat(wire, SubSeq(payload.data, 1, r.n))
                  /\ UNCHANGED log
             ELSE /\ log' = Keep(log, r.exc)
                  /\ UNCHANGED wire
          /\ pc' = IF r.exc = "none" /\ r.n < Len(payload.data) THEN "send" ELSE "for"
    /\ UNCHANGED <<prog, http_resp, endless, line, payload, conn, peer, queue,
                   exc, pulled>>
    /\ UNCHANGED <<client_vars, server_vars>>

\* A faulty variant of Send: after a partial write the rest of the frame is
\* sent by a further call (what sendall does).
Send_resume ==
    /\ IsStreamer /\ pc = "send"
    /\ \E r \in SendOutcomes(payload, peer = "open") :
          /\ sends' = Keep(sends, [i |-> Len(pulled), data |-> payload.data, res |-> r])
          /\ IF r.exc = "none"
             THEN /\ wire' = KeepCat(wire, SubSeq(payload.data, 1, r.n))
                  /\ UNCHANGED log
             ELSE /\ log' = Keep(log, r.exc)
                  /\ UNCHANGED wire
          /\ IF r.exc = "none" /\ r.n < Len(payload.data)
             THEN /\ pc' = "send"
                  /\ payload' = [payload EXCEPT
                                   !.data = SubSeq(@, r.n + 1, Len(@))]
             ELSE /\ pc' = "for"
                  /\ payload' = payload
    /\ UNCHANGED <<prog, http_resp, endless, line, conn, peer, queue,
                   exc, pulled>>
    /\ UNCHANGED <<client_vars, server_vars>>

\* tcp_connection.send(payload), its return value ignored; sleep(1) after
\* it in Spark/server.py.  except Exception: print the error, next record.
Send ==
    /\ IsStreamer /\ pc = "send"
    /\ \E r \in SendOutcomes(payload, peer = "open") :
          /\ sends' = Keep(sends, [i |-> Len(pulled), data |-> payload.data, res |-> r])
          /\ IF r.exc = "none"
             THEN /\ wire' = KeepCat(wire, SubSeq(payload.data, 1, r.n))
                  /\ UNCHANGED log
             ELSE /\ log' = Keep(log, r.exc)
                  /\ UNCHANGED wire
    /\ pc' = "for"
    /\ UNCHANGED <<prog, http_resp, endless, line, payload, conn, peer, queue,
                   exc, pulled>>
    /\ UNCHANGED <<client_vars, server_vars>>

(***************************************************************************)
(* The consumer (environment)                                              *)
(***************************************************************************)
\* A consumer connects to the listening socket.
ConsumerConnect ==
    /\ prog = "spark" /\ pc = "accept"
    /\ peer = "absent"
    /\ peer' = "open"
    /\ queue' = queue + 1
    /\ UNCHANGED <<prog, pc, http_resp, endless, line, payload, conn, exc,
                   pulled, sends, wire, log>>
    /\ UNCHANGED <<client_vars, server_vars>>

\* s.listen(1): the number of established connections the listening socket
\* holds for accept.
listen_backlog == 1

\* Another client connects after the consumer did.  The listening socket is
\* never closed while the script runs, so the connection is established and
\* waits in the queue when there is room; otherwise it is not established.
OtherConnect ==
    /\ prog = "spark"
    /\ pc \notin {"bind", "listen", "done", "raised"}
    /\ peer # "absent"
    /\ queue < listen_backlog
    /\ queue' = queue + 1
    /\ UNCHANGED <<prog, pc, http_resp, endless, line, payload, conn, peer, exc,
                   pulled, sends, wire, log>>
    /\ UNCHANGED <<client_vars, server_vars>>

\* The consumer closes its end of the connection.
ConsumerClose ==
    /\ IsStreamer
    /\ peer = "open"
    /\ pc \notin {"done", "raised", "return"}
    /\ peer' = "gone"
    /\ UNCHANGED <<prog, pc, http_resp, endless, line, payload, conn, queue, exc,
                   pulled, sends, wire, log>>
    /\ UNCHANGED <<client_vars, server_vars>>

(***************************************************************************)
(* Sockets of the request/response servers                                 *)
(***************************************************************************)
\* What recv(bufsize) on the connection of client c returns once it does not
\* block: the bytes that have arrived (at most bufsize of them); at the end
\* of the stream the empty bytes, or ConnectionResetError after a reset.
\* The empty set: recv blocks.
buffer_size == 4096
RecvOutcomes(c, bufsize) ==
    IF inbuf[c] # <<>>
    THEN LET n == IF Len(inbuf[c]) < bufsize THEN Len(inbuf[c]) ELSE bufsize
         IN  {[exc |-> "none", bytes |-> SubSeq(inbuf[c], 1, n)]}
    ELSE IF cstate[c] = "closed"
         THEN {[exc |-> "none", bytes |-> <<>>],
               [exc |-> "ConnectionResetError", bytes |-> <<>>]}
         ELSE {}

\* The main thread of a single-threaded server leaves its loop with an
\* exception: nothing catches it, the script ends.
Raise(e) ==
    /\ pc' = "raised"
    /\ exc' = e
    /\ herr' = IF cur = 0 THEN herr ELSE [herr EXCEPT ![cur] = e]

(***************************************************************************)
(* json_server/json_test2.py: while True: accept, recv, loads, send, close *)
(***************************************************************************)
\* clientSocket, address = serverSocket.accept()
JAccept ==
    /\ prog = "json_test2" /\ pc = "accept"
    /\ backlog # <<>>
    /\ cur' = Head(backlog)
    /\ backlog' = Tail(backlog)
    /\ sock' = [sock EXCEPT ![Head(backlog)] = "open"]
    /\ pc' = "recv"
    /\ UNCHANGED <<prog, stream_vars, client_vars>>
    /\ UNCHANGED <<hpc, data, herr, tname, srv, shutdown_request>>

\* data = clientSocket.recv(buffer_size)
JRecv ==
    /\ prog = "json_test2" /\ pc = "recv"
    /\ \E r \in RecvOutcomes(cur, buffer_size) :
          IF r.exc = "none"
          THEN /\ data' = [data EXCEPT ![cur] = r.bytes]
               /\ inbuf' = [inbuf EXCEPT ![cur] = SubSeq(@, Len(r.bytes) + 1, Len(@))]
               /\ pc' = "loads"
               /\ UNCHANGED <<exc, herr>>
          ELSE /\ Raise(r.exc)
               /\ UNCHANGED <<data, inbuf>>
    /\ UNCHANGED <<prog, http_resp, endless, line, payload, conn, peer, queue,
                   pulled, sends, wire, log>>
    /\ UNCHANGED <<cstate, msg, unsent, resp>>
    /\ UNCHANGED <<backlog, sock, hpc, tname, srv, shutdown_request, cur>>

\* jdata = json.loads(data.decode('utf-8'))
JLoads ==
    /\ prog = "json_test2" /\ pc = "loads"
    /\ IF loads(data[cur]).exc = "none"
       THEN /\ pc' = "send"
            /\ UNCHANGED <<exc, herr>>
       ELSE Raise(loads(data[cur]).exc)
    /\ UNCHANGED <<prog, http_resp, endless, line, payload, conn, peer, queue,
                   pulled, sends, wire, log>>
    /\ UNCHANGED client_vars
    /\ UNCHANGED <<backlog, sock, hpc, data, tname, srv, shutdown_request, cur>>

\* clientSocket.send(jdata); clientSocket.close().  jdata is the parsed
\* value (a number, a dict), never bytes.
JSend ==
    /\ prog = "json_test2" /\ pc = "send"
    /\ \E r \in SendOutcomes([type |-> loads(data[cur]).kind, data |-> data[cur]],
                            cstate[cur] = "connected") :
          IF r.exc = "none"
          THEN /\ resp' = [resp EXCEPT ![cur] = @ \o SubSeq(data[cur], 1, r.n)]
               /\ sock' = [sock EXCEPT ![cur] = "closed"]
               /\ cur' = 0
               /\ pc' = "accept"
               /\ UNCHANGED <<exc, herr>>
          ELSE /\ Raise(r.exc)
               /\ UNCHANGED <<resp, sock, cur>>
    /\ UNCHANGED <<prog, http_resp, endless, line, payload, conn, peer, queue,
                   pulled, sends, wire, log>>
    /\ UNCHANGED <<cstate, msg, unsent, inbuf>>
    /\ UNCHANGED <<backlog, hpc, data, tname, srv, shutdown_request>>

(***************************************************************************)
(* json_server/server.py: while True: server.accept, recv, send            *)
(***************************************************************************)
\* server.accept(): the jsonsocket Server closes the client it holds, then
\* waits for the next connection.
SAccept ==
    /\ prog = "server" /\ pc = "accept"
    /\ IF cur # 0
       THEN /\ sock' = [sock EXCEPT ![cur] = "closed"]
            /\ cur' = 0
            /\ UNCHANGED <<backlog, pc>>
       ELSE /\ backlog # <<>>
            /\ cur' = Head(backlog)
            /\ backlog' = Tail(backlog)
            /\ sock' = [sock EXCEPT ![Head(backlog)] = "open"]
            /\ pc' = "recv"
    /\ UNCHANGED <<prog, stream_vars, client_vars>>
    /\ UNCHANGED <<hpc, data, herr, tname, srv, shutdown_request>>

\* data = server.recv(): returns one whole message (the library frames it
\* by its length); raises when the client goes away or the text is no JSON.
SRecv ==
    /\ prog = "server" /\ pc = "recv"
    /\ \/ /\ inbuf[cur] = msg[cur]
          /\ IF loads(msg[cur]).exc = "none"
             THEN /\ data' = [data EXCEPT ![cur] = msg[cur]]
                  /\ inbuf' = [inbuf EXCEPT ![cur] = <<>>]
                  /\ pc' = "send"
                  /\ UNCHANGED <<exc, herr>>
             ELSE /\ Raise(loads(msg[cur]).exc)
                  /\ UNCHANGED <<data, inbuf>>
       \/ /\ inbuf[cur] # msg[cur]
          /\ cstate[cur] = "closed"
          /\ Raise("ConnectionResetError")
          /\ UNCHANGED <<data, inbuf>>
    /\ UNCHANGED <<prog, http_resp, endless, line, payload, conn, peer, queue,
                   pulled, sends, wire, log>>
    /\ UNCHANGED <<cstate, msg, unsent, resp>>
    /\ UNCHANGED <<backlog, sock, hpc, tname, srv, shutdown_request, cur>>

\* server.send({"response": data})
SSend ==
    /\ prog = "server" /\ pc = "send"
    /\ IF cstate[cur] = "connected"
       THEN /\ resp' = [resp EXCEPT ![cur] = @ \o <<"response">> \o data[cur]]
            /\ pc' = "accept"
            /\ UNCHANGED <<exc, herr>>
       ELSE /\ Raise("BrokenPipeError")
            /\ UNCHANGED resp
    /\ UNCHANGED <<prog, http_resp, endless, line, payload, conn, peer, queue,
                   pulled, sends, wire, log>>
    /\ UNCHANGED <<cstate, msg, unsent, inbuf>>
    /\ UNCHANGED <<backlog, sock, hpc, data, tname, srv, shutdown_request, cur>>

(***************************************************************************)
(* json_server/echo_server.py                                              *)
(***************************************************************************)
\* server = ThreadedTCPServer((HOST, PORT), ...): binds and listens, or
\* raises; then server_thread.start() runs serve_forever in a thread.
StartServer ==
    /\ prog = "echo" /\ pc = "start"
    /\ \/ pc' = "clients" /\ srv' = "select" /\ exc' = exc
       \/ pc' = "raised" /\ srv' = srv /\ exc' = "OSError"
    /\ UNCHANGED <<prog, http_resp, endless, line, payload, conn, peer, queue,
                   pulled, sends, wire, log>>
    /\ UNCHANGED client_vars
    /\ UNCHANGED <<backlog, sock, hpc, data, herr, tname, shutdown_request, cur>>

\* A faulty variant of ServeSelect: the loop does not look at the flag.
ServeSelect_ignores_flag ==
    /\ prog = "echo" /\ srv = "select"
    /\ backlog # <<>> /\ srv' = "ready"
    /\ UNCHANGED <<prog, pc, stream_vars, client_vars>>
    /\ UNCHANGED <<backlog, sock, hpc, data, herr, tname, shutdown_request, cur>>

\* serve_forever: while not shutdown_request: select(poll_interval); leave
\* when shutdown was requested (the flag is reset on the way out), go on to
\* the request when one is ready.
ServeSelect ==
    /\ prog = "echo" /\ srv = "select"
    /\ IF shutdown_request
       THEN srv' = "stopped" /\ shutdown_request' = FALSE
       ELSE backlog # <<>> /\ srv' = "ready" /\ shutdown_request' = FALSE
    /\ UNCHANGED <<prog, pc, stream_vars, client_vars>>
    /\ UNCHANGED <<backlog, sock, hpc, data, herr, tname, cur>>

\* A faulty variant of ServeHandle: no thread is started, the server
\* thread runs the handler itself (TCPServer without ThreadingMixIn).
ServeHandle_inline ==
    /\ prog = "echo" /\ srv = "ready"
    /\ LET c == Head(backlog)
       IN  /\ backlog' = Tail(backlog)
           /\ sock' = [sock EXCEPT ![c] = "open"]
           /\ hpc' = [hpc EXCEPT ![c] = "recv"]
           /\ tname' = [tname EXCEPT ![c] = 1]
    /\ srv' = "handling"
    /\ UNCHANGED <<prog, pc, stream_vars, client_vars>>
    /\ UNCHANGED <<data, herr, shutdown_request, cur>>

\* A faulty variant of ServeHandle: the connection is handed to a new thread
\* but stays in the queue of the listening socket, so that the next round
\* starts a second thread on the same socket.
ServeHandle_requeue ==
    /\ prog = "echo" /\ srv = "ready"
    /\ LET c == Head(backlog)
       IN  /\ backlog' = backlog
           /\ sock' = [sock EXCEPT ![c] = "open"]
           /\ hpc' = [hpc EXCEPT ![c] = "recv"]
           /\ tname' = [tname EXCEPT ![c] = Cardinality({d \in Clients : sock[d] # "none"}) + 2]
    /\ srv' = "select"
    /\ UNCHANGED <<prog, pc, stream_vars, client_vars>>
    /\ UNCHANGED <<data, herr, shutdown_request, cur>>

\* _handle_request_noblock: accept the connection and start a thread that
\* runs the handler (ThreadingMixIn.process_request).
ServeHandle ==
    /\ prog = "echo" /\ srv = "ready"
    /\ LET c == Head(backlog)
       IN  /\ backlog' = Tail(backlog)
           /\ sock' = [sock EXCEPT ![c] = "open"]
           /\ hpc' = [hpc EXCEPT ![c] = "recv"]
           /\ tname' = [tname EXCEPT ![c] = Cardinality({d \in Clients : sock[d] # "none"}) + 2]
    /\ srv' = "select"
    /\ UNCHANGED <<prog, pc, stream_vars, client_vars>>
    /\ UNCHANGED <<data, herr, shutdown_request, cur>>

\* The handler's exception is caught in its thread (process_request_thread:
\* handle_error, then shutdown_request closes the socket); the thread ends.
HandlerRaise(c, e) ==
    /\ herr' = [herr EXCEPT ![c] = e]
    /\ hpc' = [hpc EXCEPT ![c] = "done"]
    /\ sock' = [sock EXCEPT ![c] = "closed"]

\* handle: data = str(self.request.recv(1024))
HandlerRecv(c) ==
    /\ prog = "echo" /\ hpc[c] = "recv"
    /\ \E r \in RecvOutcomes(c, 1024) :
          IF r.exc = "none"
          THEN /\ data' = [data EXCEPT ![c] = r.bytes]
               /\ inbuf' = [inbuf EXCEPT ![c] = SubSeq(@, Len(r.bytes) + 1, Len(@))]
               /\ hpc' = [hpc EXCEPT ![c] = "sendall"]
               /\ UNCHANGED <<herr, sock>>
          ELSE /\ HandlerRaise(c, r.exc)
               /\ UNCHANGED <<data, inbuf>>
    /\ UNCHANGED <<prog, pc, stream_vars>>
    /\ UNCHANGED <<cstate, msg, unsent, resp>>
    /\ UNCHANGED <<backlog, tname, srv, shutdown_request, cur>>

\* A faulty variant of Response: data is one variable all handlers share,
\* holding what the first connection received.
Response_shared(c) ==
    <<"Thread-", ToString(tname[c]), ": ", "b'">> \o data[1] \o <<"'">>

\* response = bytes("{}: {}".format(cur_thread.name, data), 'utf8'), where
\* data is the str() of the bytes received: b'...'
Response(c) ==
    <<"Thread-", ToString(tname[c]), ": ", "b'">> \o data[c] \o <<"'">>

\* handle: self.request.sendall(response); the handler returns and the
\* socket is closed.
HandlerSend(c) ==
    /\ prog = "echo" /\ hpc[c] = "sendall"
    /\ IF cstate[c] = "connected"
       THEN /\ resp' = [resp EXCEPT ![c] = @ \o Response(c)]
            /\ hpc' = [hpc EXCEPT ![c] = "done"]
            /\ sock' = [sock EXCEPT ![c] = "closed"]
            /\ UNCHANGED herr
       ELSE /\ HandlerRaise(c, "BrokenPipeError")
            /\ UNCHANGED resp
    /\ UNCHANGED <<prog, pc, stream_vars>>
    /\ UNCHANGED <<cstate, msg, unsent, inbuf>>
    /\ UNCHANGED <<backlog, data, tname, srv, shutdown_request, cur>>

\* server.shutdown(): sets the flag, then waits for serve_forever to leave.
Shutdown ==
    /\ prog = "echo" /\ pc = "clients"
    /\ shutdown_request' = TRUE
    /\ pc' = "shutdown"
    /\ UNCHANGED <<prog, stream_vars, client_vars>>
    /\ UNCHANGED <<backlog, sock, hpc, data, herr, tname, srv, cur>>

ShutdownReturn ==
    /\ prog = "echo" /\ pc = "shutdown"
    /\ srv = "stopped"
    /\ pc' = "done"
    /\ UNCHANGED <<prog, stream_vars, client_vars, server_vars>>

(***************************************************************************)
(* The clients of the request/response servers (environment)               *)
(***************************************************************************)
\* The listening socket takes connections while the script that owns it
\* runs: from listen on, until the script ends.
Listening ==
    \/ prog = "echo" /\ pc \in {"clients", "shutdown"}
    \/ prog \in {"json_test2", "server"} /\ pc \in {"accept", "recv", "loads", "send"}

\* sock.connect((ip, port)).  The clients are numbered in the order in
\* which they connect.
ClientConnect(c) ==
    /\ Listening
    /\ cstate[c] = "idle"
    /\ \A d \in Clients : d < c => cstate[d] # "idle"
    /\ cstate' = [cstate EXCEPT ![c] = "connected"]
    /\ backlog' = Append(backlog, c)
    /\ UNCHANGED <<prog, pc, stream_vars>>
    /\ UNCHANGED <<msg, unsent, inbuf, resp>>
    /\ UNCHANGED <<sock, hpc, data, herr, tname, srv, shutdown_request, cur>>

\* sock.sendall(message): the bytes reach the server in one piece or in
\* several.
ClientSend(c) ==
    /\ Listening
    /\ cstate[c] = "connected"
    /\ unsent[c] # <<>>
    /\ \E n \in 1..Len(unsent[c]) :
          /\ inbuf' = [inbuf EXCEPT ![c] = @ \o SubSeq(unsent[c], 1, n)]
          /\ unsent' = [unsent EXCEPT ![c] = SubSeq(@, n + 1, Len(@))]
    /\ UNCHANGED <<prog, pc, stream_vars>>
    /\ UNCHANGED <<cstate, msg, resp>>
    /\ UNCHANGED server_vars

\* sock.close(), or the client going away
ClientClose(c) ==
    /\ Listening
    /\ cstate[c] = "connected"
    /\ cstate' = [cstate EXCEPT ![c] = "closed"]
    /\ UNCHANGED <<prog, pc, stream_vars>>
    /\ UNCHANGED <<msg, unsent, inbuf, resp>>
    /\ UNCHANGED server_vars

(***************************************************************************)
(* Specification                                                           *)
(***************************************************************************)
NoPayload == [type |-> "none", data |-> <<>>]

InitSpark ==
    /\ prog = "spark"
    /\ pc = "bind"
    /\ http_resp \in SeqsUpTo(Rows, MaxRecords)
    /\ endless = FALSE
    /\ conn = "none" /\ peer = "absent"

\* send_tweets_to_spark is called with a response being streamed and a
\* connected socket.
InitTwitter ==
    /\ prog = "twitter"
    /\ pc = "for"
    /\ http_resp \in SeqsUpTo(Lines, MaxRecords)
    /\ endless \in BOOLEAN
    /\ endless => http_resp # <<>>
    /\ conn = "open" /\ peer = "open"

\* The messages of a run.  The clients of the echo server send
\* "Hello World 1", "Hello World 2", ...; those of the JSON servers any of
\* Msgs; the streamers have no such clients.
Messages ==
    IF prog = "echo" THEN {[c \in Clients |-> <<"H", ToString(c)>>]}
    ELSE IF IsStreamer THEN {[c \in Clients |-> <<>>]}
    ELSE [Clients -> Msgs]

InitServers ==
    /\ \/ prog = "echo" /\ pc = "start"
       \/ prog \in {"json_test2", "server"} /\ pc = "bind"
    /\ http_resp = <<>>
    /\ endless = FALSE
    /\ conn = "none" /\ peer = "absent"

Init ==
    /\ InitSpark \/ InitTwitter \/ InitServers
    /\ line = NoLine
    /\ payload = NoPayload
    /\ queue = 0
    /\ exc = "none"
    /\ pulled = <<>> /\ sends = <<>> /\ wire = <<>> /\ log = <<>>
    /\ cstate = [c \in Clients |-> "idle"]
    /\ msg \in Messages
    /\ unsent = msg
    /\ inbuf = [c \in Clients |-> <<>>]
    /\ resp = [c \in Clients |-> <<>>]
    /\ backlog = <<>>
    /\ sock = [c \in Clients |-> "none"]
    /\ hpc = [c \in Clients |-> "none"]
    /\ data = [c \in Clients |-> <<>>]
    /\ herr = [c \in Clients |-> "none"]
    /\ tname = [c \in Clients |-> 0]
    /\ srv = "none"
    /\ shutdown_request = FALSE
    /\ cur = 0

\* The main thread of the script
Main ==
    \/ Bind \/ Listen \/ Accept \/ get_flow_data \/ Finally
    \/ Pull \/ Encode \/ Send
    \/ JAccept \/ JRecv \/ JLoads \/ JSend
    \/ SAccept \/ SRecv \/ SSend
    \/ StartServer \/ Shutdown \/ ShutdownReturn

\* The thread that runs serve_forever
ServerThread == ServeSelect \/ ServeHandle

\* The handler thread of the connection of client c
Handler(c) == HandlerRecv(c) \/ HandlerSend(c)

Environment ==
    \/ ConsumerConnect \/ ConsumerClose \/ OtherConnect
    \/ \E c \in Clients : ClientConnect(c) \/ ClientSend(c) \/ ClientClose(c)

Next ==
    \/ Main
    \/ ServerThread
    \/ \E c \in Clients : Handler(c)
    \/ Environment

Spec == Init /\ [][Next]_vars

\* Every thread of the running script keeps being scheduled; the
\* environment is under no obligation.
FairSpec ==
    /\ Spec
    /\ WF_vars(Main)
    /\ WF_vars(ServerThread)
    /\ \A c \in Clients : WF_vars(Handler(c))

(***************************************************************************)
(* Notions the properties share                                            *)
(***************************************************************************)
\* The streaming loop has returned.
Returned == IsStreamer /\ pc \in {"return", "finally", "done", "raised"}

\* The record was serialized without an exception.
Valid(rec) == PayloadOf(prog, rec).exc = "none"

\* The bytes the socket accepted over a history of send calls.
RECURSIVE Written(_)
Written(ss) ==
    IF ss = <<>> THEN <<>>
    ELSE LET last == ss[Len(ss)]
         IN  Written(SubSeq(ss, 1, Len(ss) - 1))
               \o (IF last.res.exc = "none" THEN SubSeq(last.data, 1, last.res.n)
                                            ELSE <<>>)

\* The pulled records that were serialized without an exception, in order.
ValidOnes(recs) == SelectSeq(recs, Valid)

\* Framer.decode: split the bytes on the newline delimiter; the bytes after
\* the last delimiter are the remainder.
RECURSIVE SplitLines(_, _, _)
SplitLines(b, part, out) ==
    IF b = <<>> THEN [records |-> out, remainder |-> part]
    ELSE IF Head(b) = NL
         THEN SplitLines(Tail(b), <<>>, Append(out, part))
         ELSE SplitLines(Tail(b), Append(part, Head(b)), out)

decode(b) == SplitLines(b, <<>>, <<>>)

\* The serialized text of a record: the JSON text of a row, the text of a
\* tweet.
SerializedText(rec) ==
    IF prog = "spark" THEN dumps(rec) ELSE loads(rec).text

RECURSIVE Concat(_)
Concat(ss) == IF ss = <<>> THEN <<>> ELSE Head(ss) \o Concat(Tail(ss))

Texts_of(recs) == [k \in 1..Len(recs) |-> SerializedText(recs[k])]
Frames_of(recs) == [k \in 1..Len(recs) |-> SerializedText(recs[k]) \o <<NL>>]

(***************************************************************************)
(* Properties                                                              *)
(***************************************************************************)
\* C1: once a send has failed because the consumer disconnected, the loop
\* pulls no further record and calls send no more: the failed send is the
\* last one, the record it was for is the last one pulled, and the loop is
\* not working on another record.
C1_StopsAfterDisconnect ==
    \A k \in 1..Len(sends) :
        sends[k].res.exc = "BrokenPipeError"
            => /\ k = Len(sends)
               /\ Len(pulled) = sends[k].i
               /\ pc \notin {"try", "send"}

\* C2: within one session the records are written in the order they were
\* pulled and none twice: the send calls are for strictly increasing
\* positions of the pull history, each hands over the frame of the record
\* pulled at its position, and the bytes on the wire are what these calls
\* wrote, in this order.
C2_WrittenInPullOrder ==
    /\ \A k \in 1..Len(sends) :
          /\ sends[k].i \in 1..Len(pulled)
          /\ sends[k].data = PayloadOf(prog, pulled[sends[k].i]).data
          /\ k > 1 => sends[k - 1].i < sends[k].i
    /\ wire = Written(sends)

\* C2 witness: two different records were pulled and both written.
C2_Witness ==
    /\ Len(sends) = 2
    /\ sends[1].res.exc = "none" /\ sends[2].res.exc = "none"
    /\ pulled[1] # pulled[2]
    /\ Returned

\* C3: with the connection open to the end, every valid record is
\* delivered, in order, every record that cannot be serialized is skipped,
\* and the errors reported are exactly the skipped records.
C3_SkipBadKeepGood ==
    (Returned /\ exc = "none" /\ peer = "open" /\ ~endless)
        => /\ Len(log) = Len(pulled) - Len(ValidOnes(pulled))
           /\ Len(sends) = Len(ValidOnes(pulled))
           /\ \A k \in 1..Len(sends) :
                 /\ sends[k].res.exc = "none"
                 /\ sends[k].data = PayloadOf(prog, ValidOnes(pulled)[k]).data

\* C4: for a source of valid records and a consumer that stays to the end,
\* the bytes on the wire are the serialized text of each record followed by
\* one newline, in source order, every record sent and none dropped.
C4_NewlineDelimitedStream ==
    (Returned /\ exc = "none" /\ peer = "open" /\ ~endless
       /\ ValidOnes(pulled) = pulled)
        => /\ wire = Concat(Frames_of(pulled))
           /\ Len(sends) = Len(pulled)
           /\ log = <<>>

\* C5: decoding the concatenation of the frames the sender hands to the
\* socket gives back the serialized records, in order, with nothing left.
C5_RoundTrip ==
    LET frames == [k \in 1..Len(sends) |-> sends[k].data]
        recs   == [k \in 1..Len(sends) |-> pulled[sends[k].i]]
    IN  (IsStreamer /\ ~endless)
            => decode(Concat(frames)) = [records |-> Texts_of(recs), remainder |-> <<>>]

\* C6: the receiving side decodes or answers whole messages only: a read
\* that returned a part of a message is not taken for a record.
C6_WholeFramesOnly ==
    /\ (prog = "json_test2" /\ pc = "send") => data[cur] = msg[cur]
    /\ \A c \in Clients :
          (prog = "echo" /\ hpc[c] \in {"sendall", "done"} /\ data[c] # <<>>)
              => data[c] = msg[c]

\* The server is waiting for a connection.
Waiting ==
    \/ prog = "echo" /\ srv \in {"select", "ready"}
    \/ prog \in {"spark", "json_test2", "server"} /\ pc = "accept"

Blocked(c) ==
    /\ sock[c] = "open" /\ inbuf[c] = <<>> /\ cstate[c] = "connected"
    /\ \/ prog = "echo" /\ hpc[c] = "recv"
       \/ prog \in {"json_test2", "server"} /\ cur = c /\ pc = "recv"

\* The thread that accepts can go on to accept the pending connection.
CanAccept == ENABLED ServerThread \/ ENABLED JAccept \/ ENABLED SAccept

\* C8 as claimed: while a session is blocked in recv and another
\* connection is pending, the server (unless it is shutting down) can accept.
C8_AcceptNeverStalled ==
    \A c \in Clients :
        (Blocked(c) /\ backlog # <<>> /\ ~shutdown_request /\ srv # "stopped")
            => CanAccept

\* C8 amended: this holds of the threaded echo server; in the
\* single-threaded servers the accept loop is the session, and while it is
\* blocked in recv nothing is accepted.
C8_ThreadedAcceptNotStalled ==
    \A c \in Clients :
        (Blocked(c) /\ backlog # <<>> /\ ~shutdown_request /\ srv # "stopped")
            => (CanAccept <=> prog = "echo")

\* C8 witness: in the echo server a session has been blocked in recv since
\* it was accepted, and a later connection was accepted and is being served.
C8_Witness ==
    /\ prog = "echo"
    /\ \E c, d \in Clients :
          /\ Blocked(c) /\ unsent[c] = msg[c]
          /\ tname[d] > tname[c]
          /\ Blocked(d)

\* C9: a failure inside one session ends that session only: the thread
\* that accepts is not ended by it.
C9_FailureEndsOnlySession ==
    \A c \in Clients : herr[c] # "none" => pc # "raised"

\* C10: once the consumer has closed the connection, the streaming loop
\* returns.
C10_ReturnsAfterClose == [](IsStreamer /\ peer = "gone" => <>Returned)

\* C11: no write is attempted on a connection on which an earlier write
\* has failed because the consumer was gone, or which has been closed:
\* such a failed send is the last call of send, and every call of send
\* finds the accepted socket open.
C11_NoWriteAfterFailure ==
    /\ \A k \in 1..Len(sends) :
          sends[k].res.exc = "BrokenPipeError" => k = Len(sends)
    /\ (IsStreamer /\ pc \in {"try", "send"}) => conn = "open"

\* The connections a thread of the script is working on: the accepted
\* socket of the streamer, the client socket of a single-threaded server,
\* the sockets of the running handlers of the echo server.
Active(c) == hpc[c] \in {"recv", "sendall"}

\* C12: every accepted socket belongs to one execution context.  A
\* connection leaves the queue of the listening socket when it is accepted
\* and is never accepted again; in the echo server the handlers of two
\* connections run in two different threads, none of them the thread of
\* serve_forever (Thread-1), and a running handler works on an open socket
\* of its own; the streamers and the single-threaded servers start no
\* thread at all, the main thread being the only user of the socket.
C12_OneContextPerSocket ==
    /\ \A k, l \in 1..Len(backlog) : backlog[k] = backlog[l] => k = l
    /\ \A k \in 1..Len(backlog) :
          sock[backlog[k]] = "none" /\ hpc[backlog[k]] = "none"
    /\ \A c \in Clients :
          /\ Active(c) => sock[c] = "open" /\ tname[c] >= 2
          /\ \A d \in Clients : Active(c) /\ Active(d) /\ c # d => tname[c] # tname[d]
    /\ prog # "echo" =>
          /\ srv = "none"
          /\ \A c \in Clients : hpc[c] = "none" /\ tname[c] = 0
          /\ \A c \in Clients : sock[c] = "open" => c = cur

\* Two handlers of the echo server at work at the same time.
C12_Witness ==
    /\ prog = "echo"
    /\ \A c \in Clients : Active(c)
    /\ \E c \in Clients : hpc[c] = "sendall"

\* C13: a frame is never partially re-sent.  Whatever a call of send
\* achieves, the loop goes on to the next record: the call is the only one
\* for the record in hand, and the bytes that reach the wire in one step are
\* a prefix of that record's whole frame, from its first byte on, never the
\* rest of a frame begun earlier.
C13_FrameNeverResent ==
    [][ /\ sends' # sends =>
             /\ pc = "send" /\ pc' = "for"
             /\ \A k \in 1..Len(sends) : sends[k].i # Len(pulled)
             /\ sends' = Append(sends, sends'[Len(sends')])
             /\ sends'[Len(sends')].i = Len(pulled)
             /\ sends'[Len(sends')].data = PayloadOf(prog, line).data
        /\ wire' # wire =>
             /\ sends' # sends
             /\ \E n \in 1..Len(PayloadOf(prog, line).data) :
                   wire' = wire \o SubSeq(PayloadOf(prog, line).data, 1, n)
      ]_vars

\* A frame was written in part only, and the next call of send wrote the
\* whole frame of the next record.
C13_Witness ==
    /\ Len(sends) = 2
    /\ sends[1].res.exc = "none" /\ sends[1].res.n < Len(sends[1].data)
    /\ sends[2].res.exc = "none" /\ sends[2].res.n = Len(sends[2].data)
    /\ sends[2].i = sends[1].i + 1
    /\ wire = SubSeq(sends[1].data, 1, sends[1].res.n) \o sends[2].data

\* C14: the single-consumer streamer goes bind, listen, accept, stream.  No
\* record is pulled or written while no connection has been accepted; accept
\* returns only when a consumer has connected and a connection waits in the
\* queue; and only one connection is ever taken from the queue: accept
\* returns at a time when no connection was accepted before, so a second
\* client stays in the queue of the listening socket.
C14_BindListenAcceptStream ==
    [][ prog = "spark" =>
          /\ (pulled' # pulled \/ sends' # sends \/ wire' # wire)
                => conn = "open" /\ conn' = "open"
          /\ conn' # conn /\ conn' = "open"
                => /\ pc = "accept" /\ conn = "none"
                   /\ peer # "absent" /\ queue > 0
          /\ queue' < queue => conn = "none" /\ conn' = "open"
          /\ queue' <= listen_backlog
      ]_vars

\* The run has ended after streaming to the consumer, and a second client
\* that connected meanwhile is still in the queue.
C14_Witness ==
    /\ prog = "spark" /\ pc = "done"
    /\ queue = 1 /\ conn = "closed"
    /\ Len(sends) = 2 /\ sends[1].res.exc = "none"

\* C15: in Spark/server.py an accepted connection is closed on every way
\* out of the streaming phase.  When the script has ended, the connection
\* is closed, unless none was ever accepted (bind failed); this holds after
\* an exception of get_flow_data as after a normal end.  The close is the
\* script's last step on the connection: once it is closed the script has
\* ended, so there is no send after the close.
C15_ClosedOnEveryExit ==
    prog = "spark" =>
        /\ pc \in {"done", "raised"} /\ conn # "closed"
              => conn = "none" /\ pc = "raised" /\ exc = "OSError" /\ sends = <<>>
        /\ conn = "closed" => pc \in {"done", "raised"}
        /\ pc = "raised" /\ conn = "closed" => exc = "FileNotFoundError"
        /\ pc = "done" => exc = "none"

\* get_flow_data raised after the accept, and the connection is closed.
C15_Witness ==
    /\ prog = "spark" /\ pc = "raised"
    /\ exc = "FileNotFoundError"
    /\ conn = "closed" /\ peer = "open"

\* C16: in the echo server, whatever the interleaving of the handler
\* threads, a connection gets one response, made of the name of its own
\* handler thread and of the bytes received on this connection.  The client
\* has received nothing until its handler is done and then at most one
\* response; a client that stays connected until its handler is done (as
\* client() does) has received exactly one, and its handler ended without
\* an exception.  The response is "Thread-<n>: b'<data>'" with n the number
\* of the thread started for this connection and data what the handler's
\* one recv returned: the first bytes of this client's own message, the
\* rest of which is still unread or unsent.
C16_OwnResponseOnly ==
    prog = "echo" =>
      \A c \in Clients :
        /\ hpc[c] \in {"none", "recv"} => data[c] = <<>> /\ resp[c] = <<>>
        /\ hpc[c] = "sendall" => resp[c] = <<>> /\ herr[c] = "none"
        /\ hpc[c] \in {"sendall", "done"}
              => msg[c] = data[c] \o inbuf[c] \o unsent[c]
        /\ hpc[c] = "done" /\ cstate[c] = "connected"
              => resp[c] # <<>> /\ herr[c] = "none"
        /\ resp[c] # <<>> =>
              /\ hpc[c] = "done" /\ herr[c] = "none"
              /\ Len(resp[c]) = Len(data[c]) + 5
              /\ SubSeq(resp[c], 1, 4)
                    = <<"Thread-", ToString(tname[c]), ": ", "b'">>
              /\ SubSeq(resp[c], 5, Len(resp[c]) - 1) = data[c]
              /\ resp[c][Len(resp[c])] = "'"
              /\ \A d \in Clients \ {c} : tname[d] # tname[c]

\* Every client has its response, each with its own whole message, from
\* handler threads that ran side by side.
C16_Witness ==
    /\ prog = "echo"
    /\ \A c \in Clients : resp[c] # <<>> /\ data[c] = msg[c]
    /\ msg[1] # msg[2]
    /\ tname[1] = 2 /\ tname[2] = 3

\* C17: the single-threaded JSON servers serve one connection at a time.
\* At most one accepted client socket is open, the one in hand; while the
\* loop is at recv, loads or send it works on that socket; a socket that
\* was closed had its request answered first, with the request that arrived
\* on it; when json_test2.py is at accept no accepted socket is open, and
\* when server.py comes back to accept with a client in hand (which accept
\* closes before it takes the next one) that client has its answer.  And
\* the request is answered: the loop does not end on a connection whose
\* client stays connected and whose request arrived whole and is valid
\* JSON.
C17_OneAtATime ==
    prog \in {"json_test2", "server"} =>
        /\ Cardinality({c \in Clients : sock[c] = "open"}) <= 1
        /\ \A c \in Clients : sock[c] = "open" => cur = c /\ cstate[c] # "idle"
        /\ pc \in {"recv", "loads", "send"} => cur \in Clients /\ sock[cur] = "open"
        /\ prog = "json_test2" /\ pc = "accept"
              => \A c \in Clients : sock[c] # "open"
        /\ prog = "server" /\ pc = "accept" /\ cur # 0
              => resp[cur] = <<"response">> \o msg[cur]
        /\ \A c \in Clients :
              /\ sock[c] = "closed" => resp[c] # <<>> /\ cur # c
              /\ resp[c] # <<>> => sock[c] # "none" /\ data[c] # <<>>
                                   /\ resp[c] \in { data[c], <<"response">> \o data[c] }
        /\ (pc = "raised" /\ cur # 0)
              => ~ /\ cstate[cur] = "connected"
                   /\ data[cur] = msg[cur]
                   /\ loads(msg[cur]).exc = "none"

====
